---------------------------- MODULE Spec2Model ----------------------------
(***************************************************************************)
(* The client-side login handshake of src/client.rs (login, LoginParams)   *)
(* as a state machine: one run of login() against an environment that      *)
(* decides whether each send succeeds and what each receive yields.        *)
(*                                                                         *)
(* Conventions.  Option<T> is a sequence: None is <<>> and Some(x) is      *)
(* <<x>>.  A map of the RPC value model with a known set of keys is a      *)
(* record with one Option per key, get(k) being the field k.  Strings are  *)
(* TLA+ strings.                                                           *)
(***************************************************************************)
EXTENDS Integers, Sequences, FiniteSets, TLC

None == <<>>
Some(x) == <<x>>
IsSome(o) == Len(o) = 1
Unwrap(o) == o[1]

(***************************************************************************)
(* Bounds of the model.                                                    *)
(***************************************************************************)
\* heartbeat_interval ranges over None and Some(0 .. MaxHeartbeat) seconds
MaxHeartbeat == 2
\* clientId values -MaxClientId .. MaxClientId besides the 32-bit edge values
MaxClientId == 2
\* a request reaches the writer in at most MaxChunks pieces
MaxChunks == 2

(***************************************************************************)
(* Inputs.                                                                 *)
(***************************************************************************)
LoginTypes == {"PLAIN", "SHA1"}
Users == {"", "alice"}
Passwords == {"", "secret", "hunter2"}
DeviceIds == {"", "dev-1"}
MountPoints == {"", "test/mnt"}
\* u64 as four 16-bit limbs, lowest first (as the integers of the RPC value model below)
ToU64(n) == <<n % (2^16), (n \div (2^16)) % (2^16), 0, 0>>
\* u64::MAX / 3, the largest number of seconds whose triple fits u64, and the next
U64MaxThird == <<21845, 21845, 21845, 21845>>
U64MaxThirdPlus1 == <<21846, 21845, 21845, 21845>>
\* std::time::Duration: whole seconds (u64) and nanoseconds
Duration(secs, nanos) == [secs |-> secs, nanos |-> nanos]
\* Duration::as_secs: the whole seconds, the fraction dropped
as_secs(d) == d.secs
Heartbeats ==
    {None} \cup {Some(Duration(ToU64(s), 0)) : s \in 0..MaxHeartbeat}
    \cup {Some(Duration(ToU64(1), 500000000)),
          Some(Duration(U64MaxThird, 0)), Some(Duration(U64MaxThirdPlus1, 0))}
Nonces == {"", "abc123", "xyz"}
IoErrors == {"broken pipe", "connection reset"}

\* LoginParams, client.rs:31-39
LoginParamsSet ==
    [user : Users, password : Passwords, login_type : LoginTypes,
     device_id : DeviceIds, mount_point : MountPoints,
     heartbeat_interval : Heartbeats]

\* LoginType::to_str, client.rs:17-22
to_str(login_type) ==
    CASE login_type = "PLAIN" -> "PLAIN"
      [] login_type = "SHA1" -> "SHA1"

\* hbi.as_secs() * 3 in u64: the product modulo 2^64, and whether it overflowed
Mul3(v) ==
    LET c1 == v[1] * 3
        c2 == v[2] * 3 + c1 \div (2^16)
        c3 == v[3] * 3 + c2 \div (2^16)
        c4 == v[4] * 3 + c3 \div (2^16)
    IN [val |-> <<c1 % (2^16), c2 % (2^16), c3 % (2^16), c4 % (2^16)>>,
        overflow |-> c4 \div (2^16) > 0]

\* RenderOptions with "if" for the "else if" of client.rs:73
RenderOptions_BothKeys(p) ==
    LET device == [deviceId |-> IF p.device_id # "" THEN Some(p.device_id) ELSE None,
                   mountPoint |-> IF p.mount_point # ""
                                  THEN Some(p.mount_point) ELSE None]
        device_is_empty == ~IsSome(device.deviceId) /\ ~IsSome(device.mountPoint)
    IN [idleWatchDogTimeOut |->
            IF IsSome(p.heartbeat_interval)
            THEN Some(Mul3(as_secs(Unwrap(p.heartbeat_interval))).val)
            ELSE None,
        device |-> IF ~device_is_empty THEN Some(device) ELSE None]

\* the options map, client.rs:63-79
RenderOptions(p) ==
    LET device == [deviceId |-> IF p.device_id # "" THEN Some(p.device_id) ELSE None,
                   mountPoint |-> IF p.device_id = "" /\ p.mount_point # ""
                                  THEN Some(p.mount_point) ELSE None]
        device_is_empty == ~IsSome(device.deviceId) /\ ~IsSome(device.mountPoint)
    IN [idleWatchDogTimeOut |->
            IF IsSome(p.heartbeat_interval)
            THEN Some(Mul3(as_secs(Unwrap(p.heartbeat_interval))).val)
            ELSE None,
        device |-> IF ~device_is_empty THEN Some(device) ELSE None]

\* LoginParams::to_rpcvalue, client.rs:56-81
to_rpcvalue(p) ==
    [login |-> [user |-> p.user, password |-> p.password,
                type |-> to_str(p.login_type)],
     options |-> RenderOptions(p)]

\* to_rpcvalue with overflow checks compiled in: client.rs:67 panics when the
\* product does not fit u64 (without them the product wraps)
to_rpcvalue_overflows(p) ==
    IsSome(p.heartbeat_interval) /\ Mul3(as_secs(Unwrap(p.heartbeat_interval))).overflow

(***************************************************************************)
(* The collaborators of login() that live outside client.rs: the message   *)
(* model, the hasher and the value conversions.                            *)
(***************************************************************************)
\* RpcMessage::new_request(shvpath, method, params)
new_request(shvpath, method, params) ==
    [shvpath |-> shvpath, method |-> method, params |-> params]

\* SHA-1 as an uninterpreted digest, rendered as text
Sha1(bytes) == "sha1:" \o bytes

\* util::sha1_password_hash: the digest of password followed by nonce
sha1_password_hash(password, nonce) == Sha1(password \o nonce)

\* the error payload of a failure response
RpcErrors ==
    { [code |-> "6", message |-> "Invalid login"],
      [code |-> "8", message |-> "Method call exception"] }

\* RpcError::to_rpcvalue().to_cpon(): the compact text of an error payload
to_cpon(err) == "i{1:" \o err.code \o ",2:\"" \o err.message \o "\"}"

\* An integer of the RPC value model (i64) as four 16-bit limbs, lowest first
Limb == 2^16
ToI64(n) ==
    <<n % Limb, (n \div Limb) % Limb,
      IF n < 0 THEN Limb - 1 ELSE 0, IF n < 0 THEN Limb - 1 ELSE 0>>

\* RpcValue::as_i32 on an integer: the low 32 bits, read as two's complement
as_i32(v) ==
    IF v[2] >= Limb \div 2 THEN (v[2] - Limb) * Limb + v[1]
    ELSE v[2] * Limb + v[1]

I32Min == -(2^30) - 2^30
I32Max == (2^30 - 1) + 2^30

\* the i32 values a peer is modelled to send as clientId
I32Samples ==
    (-MaxClientId..MaxClientId) \cup {I32Min, I32Min + 1, I32Max - 1, I32Max, 42, 65536, -65537}

\* clientId values: the samples, and integers outside the 32-bit range
\* (2^31, -2^31 - 1, 2^32 + 42)
ClientIds ==
    {ToI64(n) : n \in I32Samples}
    \cup {<<0, Limb \div 2, 0, 0>>, <<Limb - 1, Limb \div 2 - 1, Limb - 1, Limb - 1>>,
          <<42, 0, 1, 0>>}

\* a result mapping: the keys login() asks for, each present or absent
ResultMaps ==
    [nonce : {None} \cup {Some(n) : n \in Nonces},
     clientId : {None} \cup {Some(c) : c \in ClientIds}]

\* RpcMessage::default(): a message with neither result nor error
DefaultMessage == [result |-> None, error |-> None]

\* the result mappings a peer answers hello with (a clientId there is of no
\* interest to login()) and login with (likewise a nonce)
HelloResults == {m \in ResultMaps : m.clientId \in {None, Some(ToI64(42))}}
LoginResults == {m \in ResultMaps : m.nonce \in {None, Some("xyz")}}

\* the responses a peer can send: success, failure, or neither key
Responses(maps) ==
    {[result |-> Some(m), error |-> None] : m \in maps}
    \cup {[result |-> None, error |-> Some(e)] : e \in RpcErrors}
    \cup {DefaultMessage}

\* RpcMessage::error(): the error payload, if the message carries one
error(resp) == resp.error

\* RpcMessage::result(): Ok(result) or Err(error)
result(resp) ==
    IF IsSome(resp.error) THEN [ok |-> FALSE, val |-> None, err |-> resp.error]
    ELSE IF IsSome(resp.result) THEN [ok |-> TRUE, val |-> resp.result, err |-> None]
    ELSE [ok |-> FALSE, val |-> None, err |-> None]

\* RpcMessage::is_success()
is_success(resp) == result(resp).ok

\* what FrameReader::receive_message() can yield: Err(io), Ok(None), Ok(Some(msg))
ReceiveResults(maps) ==
    {[res |-> "Err", io |-> e, msg |-> DefaultMessage] : e \in IoErrors}
    \cup {[res |-> "None", io |-> "", msg |-> DefaultMessage]}
    \cup {[res |-> "Some", io |-> "", msg |-> m] : m \in Responses(maps)}

\* what connection::send_message() can yield: Ok(()) or Err(io)
SendResults ==
    {[ok |-> TRUE, io |-> ""]} \cup {[ok |-> FALSE, io |-> e] : e \in IoErrors}

(***************************************************************************)
(* The value login() returns (crate::Result<i32>), or a panic.             *)
(***************************************************************************)
NoOutcome == [kind |-> "none", client_id |-> 0, type |-> "", text |-> "", rpc |-> None]
Ok(id) == [kind |-> "Ok", client_id |-> id, type |-> "", text |-> "", rpc |-> None]
\* Err(e): type is the Rust type of the boxed error
Err(type, text, rpc) ==
    [kind |-> "Err", client_id |-> 0, type |-> type, text |-> text, rpc |-> rpc]
Panic(text) ==
    [kind |-> "Panic", client_id |-> 0, type |-> "", text |-> text, rpc |-> None]

(***************************************************************************)
(* login(), client.rs:84-106, cut at its suspension points.                *)
(***************************************************************************)
\* the function returns: nothing more is sent, hashed or kept
Return(o) == [pc |-> "done", outcome |-> o, rq |-> None, local |-> None, hashes |-> 0]

\* std::str::from_utf8(&hash): the digest as a string, when its bytes are UTF-8
from_utf8(bytes, utf8_valid) ==
    IF utf8_valid THEN [ok |-> TRUE, val |-> bytes]
    ELSE [ok |-> FALSE, val |-> ""]

\* client.rs:88, the first request
HelloRequest == new_request("", "hello", None)

\* BuildLogin without the substitution of client.rs:98: the clone keeps the password
BuildLogin_PlainPassword(p, nonce, utf8_valid, overflow_checks) ==
    LET hash == sha1_password_hash(p.password, nonce)
        str == from_utf8(hash, utf8_valid)
    IN IF ~str.ok
       THEN [Return(Err("Utf8Error", "invalid utf-8 sequence", None)) EXCEPT !.hashes = 1]
       ELSE IF overflow_checks /\ to_rpcvalue_overflows(p)
       THEN [Return(Panic("attempt to multiply with overflow")) EXCEPT !.hashes = 1]
       ELSE [pc |-> "send_login", outcome |-> NoOutcome,
             rq |-> Some(new_request("", "login", Some(to_rpcvalue(p)))),
             local |-> Some(p), hashes |-> 1]

\* client.rs:96-99, from the nonce to the login request
BuildLogin(p, nonce, utf8_valid, overflow_checks) ==
    LET hash == sha1_password_hash(p.password, nonce)
        str == from_utf8(hash, utf8_valid)
    IN IF ~str.ok
       THEN [Return(Err("Utf8Error", "invalid utf-8 sequence", None)) EXCEPT !.hashes = 1]
       ELSE LET login_params == [p EXCEPT !.password = str.val]
            IN IF overflow_checks /\ to_rpcvalue_overflows(login_params)
               THEN [Return(Panic("attempt to multiply with overflow")) EXCEPT !.hashes = 1]
               ELSE
               [pc |-> "send_login", outcome |-> NoOutcome,
                rq |-> Some(new_request("", "login", Some(to_rpcvalue(login_params)))),
                local |-> Some(login_params), hashes |-> 1]

\* HelloStep without the is_success test of client.rs:91
HelloStep_NoSuccessCheck(p, r, utf8_valid, overflow_checks) ==
    IF r.res = "Err" THEN Return(Err("io", r.io, None))
    ELSE LET resp == IF r.res = "Some" THEN r.msg ELSE DefaultMessage
             res == result(resp)
         IN IF ~res.ok \/ ~IsSome(Unwrap(res.val).nonce)
            THEN Return(Err("str", "Bad nonce", None))
            ELSE BuildLogin(p, Unwrap(Unwrap(res.val).nonce), utf8_valid, overflow_checks)

\* HelloStep with a missing nonce read as the empty string
HelloStep_DefaultNonce(p, r, utf8_valid, overflow_checks) ==
    IF r.res = "Err" THEN Return(Err("io", r.io, None))
    ELSE LET resp == IF r.res = "Some" THEN r.msg ELSE DefaultMessage
         IN IF ~is_success(resp)
            THEN IF IsSome(error(resp))
                 THEN Return(Err("String", to_cpon(Unwrap(error(resp))), None))
                 ELSE Return(Panic("called Option::unwrap() on a None value"))
            ELSE LET map == Unwrap(result(resp).val)
                 IN BuildLogin(p, IF IsSome(map.nonce) THEN Unwrap(map.nonce) ELSE "",
                               utf8_valid, overflow_checks)

\* client.rs:90-99, from the outcome r of receive_message() to the login request
HelloStep(p, r, utf8_valid, overflow_checks) ==
    IF r.res = "Err" THEN Return(Err("io", r.io, None))
    ELSE LET resp == IF r.res = "Some" THEN r.msg ELSE DefaultMessage
         IN IF ~is_success(resp)
            THEN IF IsSome(error(resp))
                 THEN Return(Err("String", to_cpon(Unwrap(error(resp))), None))
                 ELSE Return(Panic("called Option::unwrap() on a None value"))
            ELSE LET map == Unwrap(result(resp).val)
                 IN IF ~IsSome(map.nonce)
                    THEN Return(Err("str", "Bad nonce", None))
                    ELSE BuildLogin(p, Unwrap(map.nonce), utf8_valid, overflow_checks)

\* LoginStep that demands a clientId
LoginStep_MissingIdFails(r) ==
    IF r.res = "Err" THEN Err("io", r.io, None)
    ELSE IF r.res = "None" THEN Err("str", "Socked closed", None)
    ELSE LET res == result(r.msg)
         IN IF ~res.ok THEN Err("RpcError", "", res.err)
            ELSE LET map == Unwrap(res.val)
                 IN IF ~IsSome(map.clientId) THEN Err("str", "Bad clientId", None)
                    ELSE Ok(as_i32(Unwrap(map.clientId)))

\* LoginStep that reads a response without result as one without clientId
LoginStep_IgnoreError(r) ==
    IF r.res = "Err" THEN Err("io", r.io, None)
    ELSE IF r.res = "None" THEN Err("str", "Socked closed", None)
    ELSE LET res == result(r.msg)
         IN IF ~res.ok \/ ~IsSome(Unwrap(res.val).clientId) THEN Ok(0)
            ELSE Ok(as_i32(Unwrap(Unwrap(res.val).clientId)))

\* client.rs:101-105, from the outcome r of receive_message() to the return value
LoginStep(r) ==
    IF r.res = "Err" THEN Err("io", r.io, None)
    ELSE IF r.res = "None" THEN Err("str", "Socked closed", None)
    ELSE LET res == result(r.msg)
         IN IF ~res.ok THEN Err("RpcError", "", res.err)
            ELSE LET map == Unwrap(res.val)
                 IN IF ~IsSome(map.clientId) THEN Ok(0)
                    ELSE Ok(as_i32(Unwrap(map.clientId)))

\* the entry a receive leaves in the log
RecvTag(r) ==
    CASE r.res = "Err" -> "recv:err"
      [] r.res = "None" -> "recv:none"
      [] r.res = "Some" -> "recv:some"

VARIABLES
    login_params,   \* the caller's LoginParams, borrowed by login()
    pc,             \* where login() stands
    rq,             \* the request being sent, if any
    local_params,   \* the clone of client.rs:97, once made
    outcome,        \* what login() returned
    wire,           \* the requests written to the writer, in order
    consumed,       \* the messages the reader handed over, in order
    hash_calls,     \* how often sha1_password_hash was called
    log,            \* every completed send and receive, in order
    partial,        \* the pieces of an unfinished request that reached the writer
    fs,             \* the file system at the configuration path
    cfg,            \* the configuration call in progress
    cfg_results     \* the configuration calls that returned, in order

login_vars ==
    <<login_params, pc, rq, local_params, outcome, wire, consumed, hash_calls, log, partial>>
cfg_vars == <<fs, cfg, cfg_results>>
vars == <<login_vars, cfg_vars>>

\* no configuration call is made during a login run
NoFile == [path |-> "", dir |-> FALSE, file |-> None, readable |-> FALSE]
CfgIdle == [pc |-> "idle", fn |-> "", file_name |-> "", create_if_not_exist |-> FALSE,
            before |-> NoFile, ops |-> <<>>]

Init ==
    /\ login_params \in LoginParamsSet
    /\ pc = "send_hello"
    /\ rq = Some(HelloRequest)
    /\ local_params = None
    /\ outcome = NoOutcome
    /\ wire = <<>>
    /\ consumed = <<>>
    /\ hash_calls = 0
    /\ log = <<>>
    /\ partial = 0
    /\ fs = NoFile
    /\ cfg = CfgIdle
    /\ cfg_results = <<>>

\* Send that writes the request a second time
Send_Twice(s, next) ==
    /\ IF s.ok
       THEN /\ wire' = wire \o <<Unwrap(rq), Unwrap(rq)>>
            /\ log' = log \o <<"send:ok", "send:ok">>
            /\ pc' = next
            /\ outcome' = outcome
       ELSE /\ wire' = wire
            /\ log' = Append(log, "send:err")
            /\ pc' = "done"
            /\ outcome' = Err("io", s.io, None)
    /\ rq' = None
    /\ partial' = IF s.ok THEN 0 ELSE partial
    /\ UNCHANGED <<login_params, local_params, consumed, hash_calls>>

\* Send without the ? of client.rs:89 and 100: a failed send is not returned
Send_IgnoreError(s, next) ==
    /\ wire' = IF s.ok THEN Append(wire, Unwrap(rq)) ELSE wire
    /\ log' = Append(log, IF s.ok THEN "send:ok" ELSE "send:err")
    /\ pc' = next
    /\ rq' = None
    /\ partial' = IF s.ok THEN 0 ELSE partial
    /\ UNCHANGED <<login_params, local_params, outcome, consumed, hash_calls>>

\* connection::send_message(writer, &rq).await? with outcome s; next is the await that follows
Send(s, next) ==
    /\ IF s.ok
       THEN /\ wire' = Append(wire, Unwrap(rq))
            /\ log' = Append(log, "send:ok")
            /\ pc' = next
            /\ outcome' = outcome
       ELSE /\ wire' = wire
            /\ log' = Append(log, "send:err")
            /\ pc' = "done"
            /\ outcome' = Err("io", s.io, None)
    /\ rq' = None
    /\ partial' = IF s.ok THEN 0 ELSE partial
    /\ UNCHANGED <<login_params, local_params, consumed, hash_calls>>

\* send_message hands the writer one more piece of the request and suspends
\* before the last one
WriteChunk ==
    /\ pc \in {"send_hello", "send_login"}
    /\ partial < MaxChunks - 1
    /\ partial' = partial + 1
    /\ UNCHANGED <<login_params, pc, rq, local_params, outcome, wire, consumed,
                   hash_calls, log>>
    /\ UNCHANGED cfg_vars

\* client.rs:89
SendHello ==
    /\ pc = "send_hello"
    /\ \E s \in SendResults : Send(s, "await_hello")
    /\ UNCHANGED cfg_vars

\* RecvHello that substitutes the password in the caller's LoginParams
RecvHello_InPlace ==
    /\ pc = "await_hello"
    /\ \E r \in ReceiveResults(HelloResults), utf8_valid \in BOOLEAN, overflow_checks \in BOOLEAN :
        LET step == HelloStep(login_params, r, utf8_valid, overflow_checks)
        IN /\ pc' = step.pc
           /\ rq' = step.rq
           /\ local_params' = step.local
           /\ login_params' = IF IsSome(step.local) THEN Unwrap(step.local) ELSE login_params
           /\ outcome' = step.outcome
           /\ hash_calls' = hash_calls + step.hashes
           /\ consumed' = IF r.res = "Some" THEN Append(consumed, r.msg) ELSE consumed
           /\ log' = Append(log, RecvTag(r))
           /\ UNCHANGED <<wire, partial>>
    /\ UNCHANGED cfg_vars

\* client.rs:90-99
RecvHello ==
    /\ pc = "await_hello"
    /\ \E r \in ReceiveResults(HelloResults), utf8_valid \in BOOLEAN, overflow_checks \in BOOLEAN :
        LET step == HelloStep(login_params, r, utf8_valid, overflow_checks)
        IN /\ pc' = step.pc
           /\ rq' = step.rq
           /\ local_params' = step.local
           /\ outcome' = step.outcome
           /\ hash_calls' = hash_calls + step.hashes
           /\ consumed' = IF r.res = "Some" THEN Append(consumed, r.msg) ELSE consumed
           /\ log' = Append(log, RecvTag(r))
           /\ UNCHANGED <<login_params, wire, partial>>
    /\ UNCHANGED cfg_vars

\* client.rs:100
SendLogin ==
    /\ pc = "send_login"
    /\ \E s \in SendResults : Send(s, "await_login")
    /\ UNCHANGED cfg_vars

\* client.rs:101-105
RecvLogin ==
    /\ pc = "await_login"
    /\ \E r \in ReceiveResults(LoginResults) :
        /\ pc' = "done"
        /\ outcome' = LoginStep(r)
        /\ consumed' = IF r.res = "Some" THEN Append(consumed, r.msg) ELSE consumed
        /\ log' = Append(log, RecvTag(r))
        /\ UNCHANGED <<login_params, rq, local_params, wire, hash_calls, partial>>
    /\ UNCHANGED cfg_vars

\* the task that runs login() is dropped at one of its awaits, client.rs:89, 90,
\* 100, 101: the future and all it holds are gone, the transport stays as it is
Cancel ==
    /\ pc \in {"send_hello", "await_hello", "send_login", "await_login"}
    /\ pc' = "cancelled"
    /\ rq' = None
    /\ local_params' = None
    /\ UNCHANGED <<login_params, outcome, wire, consumed, hash_calls, log, partial>>
    /\ UNCHANGED cfg_vars

Next == WriteChunk \/ SendHello \/ RecvHello \/ SendLogin \/ RecvLogin

Spec == Init /\ [][Next]_vars

\* login() in a task that may be cancelled
SpecCancel == Init /\ [][Next \/ Cancel]_vars

\* every write completes or fails and the peer answers every request
SpecFair == Init /\ [][Next]_vars /\ WF_vars(Next)

(***************************************************************************)
(* ClientConfig, client.rs:107-156: the configuration record, its file     *)
(* form, and from_file / from_file_or_default against one path of a file   *)
(* system.                                                                 *)
(***************************************************************************)
\* number of configuration calls in one behaviour
MaxCalls == 2

\* default_heartbeat, client.rs:107
default_heartbeat == "1m"

\* ClientConfig::default with another heartbeat text than default_heartbeat
ClientConfigDefault_OtherHeartbeat ==
    [url |-> "tcp://localhost:3755", device_id |-> None, mount |-> None,
     heartbeat_interval |-> "60s", reconnect_interval |-> None]

\* impl Default for ClientConfig, client.rs:146-156
ClientConfigDefault ==
    [url |-> "tcp://localhost:3755", device_id |-> None, mount |-> None,
     heartbeat_interval |-> default_heartbeat, reconnect_interval |-> None]

\* a YAML document: well-formed or not, and its top-level pairs of a key and a
\* string value or null (None)
Doc(pairs) == [syntax_ok |-> TRUE, pairs |-> pairs]

\* serde_yaml::to_string of the derived Serialize, client.rs:108-116: every
\* field in declaration order, an absent Option as null
to_yaml(c) ==
    Doc(<< <<"url", Some(c.url)>>, <<"device_id", c.device_id>>, <<"mount", c.mount>>,
           <<"heartbeat_interval", Some(c.heartbeat_interval)>>,
           <<"reconnect_interval", c.reconnect_interval>> >>)

\* the documents a file at the path may hold
Docs ==
    { to_yaml(ClientConfigDefault),
      to_yaml([url |-> "tcp://broker:3755", device_id |-> Some("dev-1"),
               mount |-> Some("test/mnt"), heartbeat_interval |-> "30s",
               reconnect_interval |-> Some("5s")]),
      Doc(<< <<"url", Some("unix:/run/shv.sock")>> >>),
      Doc(<< <<"heartbeat_interval", Some("1m")>> >>),
      Doc(<< <<"url", None>> >>),
      Doc(<< >>),
      [syntax_ok |-> FALSE, pairs |-> << >>] }

\* the value of a key of a document: absent, or present with a value or null
Lookup(pairs, key) ==
    LET at == {i \in 1..Len(pairs) : pairs[i][1] = key}
    IN IF at = {} THEN [present |-> FALSE, val |-> None]
       ELSE [present |-> TRUE, val |-> pairs[CHOOSE i \in at : TRUE][2]]

CfgOk(c) == [kind |-> "Ok", config |-> Some(c), type |-> "", text |-> << >>]
\* an error: the Rust type of the boxed error and the pieces of its Display text
CfgErr(type, text) == [kind |-> "Err", config |-> None, type |-> type, text |-> text]

\* serde_yaml::from_str of the derived Deserialize, client.rs:108-116: url is
\* required, heartbeat_interval defaults, an absent or null Option is None
from_yaml(doc) ==
    LET url == Lookup(doc.pairs, "url")
        hb == Lookup(doc.pairs, "heartbeat_interval")
        opt(key) == Lookup(doc.pairs, key).val
    IN IF ~doc.syntax_ok
       THEN CfgErr("serde_yaml::Error", <<"did not find expected node content">>)
       ELSE IF ~url.present THEN CfgErr("serde_yaml::Error", <<"missing field url">>)
       ELSE IF ~IsSome(url.val)
       THEN CfgErr("serde_yaml::Error", <<"url: invalid type: unit value, expected a string">>)
       ELSE IF hb.present /\ ~IsSome(hb.val)
       THEN CfgErr("serde_yaml::Error",
                   <<"heartbeat_interval: invalid type: unit value, expected a string">>)
       ELSE CfgOk([url |-> Unwrap(url.val),
                   device_id |-> opt("device_id"),
                   mount |-> opt("mount"),
                   heartbeat_interval |-> IF hb.present THEN Unwrap(hb.val)
                                          ELSE default_heartbeat,
                   reconnect_interval |-> opt("reconnect_interval")])

\* the paths from_file_or_default is called with
FileNames == {"etc/shv/client.yaml", "client.yaml", ""}

\* Path::parent, client.rs:137
parent(file_name) ==
    CASE file_name = "etc/shv/client.yaml" -> Some("etc/shv")
      [] file_name = "client.yaml" -> Some("")
      [] file_name = "" -> None

\* the file system at one path: whether the parent directory exists, the
\* document of the file if there is one, and whether it can be read
FileSystems ==
    {f \in [path : FileNames, dir : BOOLEAN,
            file : {None} \cup {Some(d) : d \in Docs}, readable : BOOLEAN] :
        /\ IsSome(f.file) => f.dir /\ f.path # ""
        /\ ~IsSome(f.file) => ~f.readable
        /\ f.path \in {"client.yaml", ""} => f.dir}

\* Path::exists, client.rs:124
exists(f) == IsSome(f.file)

\* fs::read_to_string, client.rs:119
read_to_string(f) ==
    IF ~IsSome(f.file)
    THEN [ok |-> FALSE, val |-> Doc(<< >>), text |-> <<"No such file or directory (os error 2)">>]
    ELSE IF ~f.readable
    THEN [ok |-> FALSE, val |-> Doc(<< >>), text |-> <<"Permission denied (os error 13)">>]
    ELSE [ok |-> TRUE, val |-> Unwrap(f.file), text |-> << >>]

\* from_file that puts the file name into its errors
from_file_Annotated(f) ==
    LET content == read_to_string(f)
    IN IF ~content.ok THEN CfgErr("String", <<f.path, ": ">> \o content.text)
       ELSE LET parsed == from_yaml(content.val)
            IN IF parsed.kind = "Err" THEN CfgErr("String", <<f.path, ": ">> \o parsed.text)
               ELSE parsed

\* ClientConfig::from_file, client.rs:118-121, of the file at f.path
from_file(f) ==
    LET content == read_to_string(f)
    IN IF ~content.ok THEN CfgErr("io::Error", content.text)
       ELSE from_yaml(content.val)

\* LoadExisting that falls back to the default configuration
LoadExisting_Fallback(f) ==
    LET loaded == from_file(f)
    IN IF loaded.kind = "Ok" THEN loaded ELSE CfgOk(ClientConfigDefault)

\* client.rs:126-133: the file exists, load it and name the file in the error
LoadExisting(f) ==
    LET loaded == from_file(f)
    IN IF loaded.kind = "Ok" THEN loaded
       ELSE CfgErr("String", <<"Cannot read config file: ", f.path, " - ">> \o loaded.text)

\* what fs::create_dir_all of the parent directory can do, client.rs:138: nothing
\* to do for "" and for a directory that exists, else it creates it or fails
CreateDirResults(f) ==
    IF Unwrap(parent(f.path)) = "" \/ f.dir THEN {[ok |-> TRUE, dir |-> f.dir]}
    ELSE {[ok |-> TRUE, dir |-> TRUE], [ok |-> FALSE, dir |-> FALSE]}

\* what fs::write can do, client.rs:141: the file is created and written, or it
\* cannot be created, or it is created and the write fails
WriteResults(f, doc) ==
    IF f.path = "" \/ ~f.dir THEN {[ok |-> FALSE, file |-> f.file, readable |-> f.readable]}
    ELSE {[ok |-> TRUE, file |-> Some(doc), readable |-> TRUE],
          [ok |-> FALSE, file |-> f.file, readable |-> f.readable],
          [ok |-> FALSE, file |-> Some(Doc(<< >>)), readable |-> TRUE]}

\* AfterExists that creates the file whether asked to or not
AfterExists_AlwaysCreate(f, create_if_not_exist) ==
    IF exists(f) THEN "load"
    ELSE IF parent(f.path) # None THEN "create_dir_all" ELSE "write"

\* client.rs:124, 136-137: where from_file_or_default goes after the existence test
AfterExists(f, create_if_not_exist) ==
    IF exists(f) THEN "load"
    ELSE IF ~create_if_not_exist THEN "return_default"
    ELSE IF parent(f.path) # None THEN "create_dir_all" ELSE "write"

\* AfterWrite without the ? on fs::write
AfterWrite_IgnoreError(w) == CfgOk(ClientConfigDefault)

\* client.rs:141-143: the result of from_file_or_default after fs::write
AfterWrite(w) ==
    IF w.ok THEN CfgOk(ClientConfigDefault)
    ELSE CfgErr("io::Error", <<"Permission denied (os error 13)">>)

\* login() is not running
LoginIdle ==
    /\ login_params = [user |-> "", password |-> "", login_type |-> "SHA1",
                       device_id |-> "", mount_point |-> "",
                       heartbeat_interval |-> Some(Duration(ToU64(60), 0))]
    /\ pc = "idle"
    /\ rq = None
    /\ local_params = None
    /\ outcome = NoOutcome
    /\ wire = <<>>
    /\ consumed = <<>>
    /\ hash_calls = 0
    /\ log = <<>>
    /\ partial = 0

ConfigInit ==
    /\ LoginIdle
    /\ fs \in FileSystems
    /\ cfg = [CfgIdle EXCEPT !.before = fs]
    /\ cfg_results = <<>>

\* a call returns: it is recorded with the file system before and after it
CfgReturn(res, op) ==
    /\ cfg_results' = Append(cfg_results,
          [fn |-> cfg.fn, file_name |-> cfg.file_name,
           create_if_not_exist |-> cfg.create_if_not_exist,
           before |-> cfg.before, after |-> fs', ops |-> Append(cfg.ops, op),
           result |-> res])
    /\ cfg' = [CfgIdle EXCEPT !.before = fs']

CfgGoto(next, op) == cfg' = [cfg EXCEPT !.pc = next, !.ops = Append(cfg.ops, op)]

\* the caller calls ClientConfig::from_file(file_name)
CallFromFile ==
    /\ cfg.pc = "idle" /\ pc = "idle"
    /\ Len(cfg_results) < MaxCalls
    /\ cfg' = [pc |-> "load", fn |-> "from_file", file_name |-> fs.path,
               create_if_not_exist |-> FALSE, before |-> fs, ops |-> <<>>]
    /\ UNCHANGED <<fs, cfg_results>>
    /\ UNCHANGED login_vars

\* the caller calls ClientConfig::from_file_or_default(file_name, create_if_not_exist)
CallFromFileOrDefault ==
    /\ cfg.pc = "idle" /\ pc = "idle"
    /\ Len(cfg_results) < MaxCalls
    /\ \E create_if_not_exist \in BOOLEAN :
          cfg' = [pc |-> "exists", fn |-> "from_file_or_default", file_name |-> fs.path,
                  create_if_not_exist |-> create_if_not_exist, before |-> fs, ops |-> <<>>]
    /\ UNCHANGED <<fs, cfg_results>>
    /\ UNCHANGED login_vars

\* client.rs:123-124 and 135-137
Exists ==
    /\ cfg.pc = "exists"
    /\ fs' = fs
    /\ LET next == AfterExists(fs, cfg.create_if_not_exist)
       IN IF next = "return_default"
          THEN CfgReturn(CfgOk(ClientConfigDefault), "exists")
          ELSE CfgGoto(next, "exists") /\ UNCHANGED cfg_results
    /\ UNCHANGED login_vars

\* client.rs:118-121 called directly, or client.rs:125-133
Load ==
    /\ cfg.pc = "load"
    /\ fs' = fs
    /\ CfgReturn(IF cfg.fn = "from_file" THEN from_file(fs) ELSE LoadExisting(fs), "read")
    /\ UNCHANGED login_vars

\* client.rs:138
CreateDirAll ==
    /\ cfg.pc = "create_dir_all"
    /\ \E d \in CreateDirResults(fs) :
          /\ fs' = [fs EXCEPT !.dir = d.dir]
          /\ IF d.ok THEN CfgGoto("write", "create_dir_all:ok") /\ UNCHANGED cfg_results
             ELSE CfgReturn(CfgErr("io::Error", <<"Permission denied (os error 13)">>),
                            "create_dir_all:err")
    /\ UNCHANGED login_vars

\* client.rs:140-143
Write ==
    /\ cfg.pc = "write"
    /\ \E w \in WriteResults(fs, to_yaml(ClientConfigDefault)) :
          /\ fs' = [fs EXCEPT !.file = w.file, !.readable = w.readable]
          /\ CfgReturn(AfterWrite(w), IF w.ok THEN "write:ok" ELSE "write:err")
    /\ UNCHANGED login_vars

ConfigNext == CallFromFile \/ CallFromFileOrDefault \/ Exists \/ Load \/ CreateDirAll \/ Write

SpecConfig == ConfigInit /\ [][ConfigNext]_vars

(***************************************************************************)
(* Vocabulary of the properties.                                           *)
(***************************************************************************)
IsExchange(tag) == tag \in {"send:ok", "recv:some"}
IsRecv(tag) == tag \in {"recv:err", "recv:none", "recv:some"}
IsFailure(tag) == tag \in {"send:err", "recv:err"}
RecvCalls == Len(SelectSeq(log, IsRecv))
IsPrefix(s, t) == Len(s) <= Len(t) /\ \A i \in 1..Len(s) : s[i] = t[i]
TwoRoundTrips == <<"send:ok", "recv:some", "send:ok", "recv:some">>

IsHello(m) == m.method = "hello" /\ m.shvpath = "" /\ m.params = None
IsLogin(m) == m.method = "login" /\ m.shvpath = "" /\ Len(m.params) = 1
LoginWritten == \E i \in 1..Len(wire) : wire[i].method = "login"

\* a message was handed over in answer to hello / to login
HelloAnswered == Len(log) >= 2 /\ log[2] = "recv:some"
LoginAnswered == Len(log) >= 4 /\ log[4] = "recv:some"
\* the reader yielded no message in answer to hello / to login
ClosedAtHello == Len(log) >= 2 /\ log[2] = "recv:none"
ClosedAtLogin == Len(log) >= 4 /\ log[4] = "recv:none"

\* hello was answered with an error response
HelloRejected == HelloAnswered /\ IsSome(consumed[1].error)
\* the password field of the login request on the wire
SentPassword == Unwrap(wire[2].params).login.password
\* the nonce of the consumed hello response
HelloNonce == Unwrap(Unwrap(consumed[1].result).nonce)
\* hello was answered with a success whose result has no nonce
HelloWithoutNonce ==
    /\ HelloAnswered
    /\ ~IsSome(consumed[1].error) /\ IsSome(consumed[1].result)
    /\ ~IsSome(Unwrap(consumed[1].result).nonce)
\* login was answered with a success response
LoginAccepted ==
    LoginAnswered /\ ~IsSome(consumed[2].error) /\ IsSome(consumed[2].result)
\* login was answered with an error response
LoginRejected == LoginAnswered /\ IsSome(consumed[2].error)

\* the failure causes of the handshake, by the error login() returns
AuthenticationRejected(o) == o.kind = "Err" /\ o.type \in {"String", "RpcError"}
ProtocolViolation(o) == o.kind = "Err" /\ o.type \in {"str", "Utf8Error"} /\ o.text # "Socked closed"
Transport(o) == o.kind = "Err" /\ (o.type = "io" \/ (o.type = "str" /\ o.text = "Socked closed"))

(***************************************************************************)
(* C1: requests and consumed responses strictly alternate; the first       *)
(* request is hello (empty destination, no parameters); login (empty       *)
(* destination, one parameter) is written only after the answer to hello   *)
(* was consumed; at most two requests are written and two responses read;  *)
(* a run that returns a client id has made exactly two round trips.        *)
(***************************************************************************)
C1_TwoAlternatingRoundTrips ==
    /\ IsPrefix(SelectSeq(log, IsExchange), TwoRoundTrips)
    /\ Len(wire) <= 2 /\ Len(consumed) <= 2 /\ RecvCalls <= 2
    /\ Len(wire) >= 1 => IsHello(wire[1])
    /\ Len(wire) >= 2 => IsLogin(wire[2]) /\ Len(consumed) >= 1
    /\ outcome.kind = "Ok" =>
          /\ log = TwoRoundTrips
          /\ Len(wire) = 2 /\ Len(consumed) = 2

C1_Witness == outcome.kind = "Ok" /\ Len(wire) = 2 /\ Len(consumed) = 2

(***************************************************************************)
(* C2: an error response to hello ends login() with the server's error    *)
(* payload as text (authentication rejected), and no login request is      *)
(* written.                                                                *)
(***************************************************************************)
C2_HelloErrorRejects ==
    HelloRejected =>
        /\ pc = "done"
        /\ AuthenticationRejected(outcome)
        /\ outcome.text = to_cpon(Unwrap(consumed[1].error))
        /\ Unwrap(consumed[1].error) = [code |-> "6", message |-> "Invalid login"]
              => outcome.text = "i{1:6,2:\"Invalid login\"}"
        /\ ~LoginWritten /\ Len(wire) = 1 /\ rq = None

C2_Witness == HelloRejected /\ pc = "done" /\ outcome.kind = "Err"

(***************************************************************************)
(* C3: when the reader yields no message in answer to hello, login()       *)
(* returns a failure value to its caller (it neither aborts nor goes on)   *)
(* and no login request is written.                                        *)
(***************************************************************************)
C3_ClosedAtHelloReturnsFailure ==
    ClosedAtHello =>
        /\ pc = "done"
        /\ outcome.kind = "Err"
        /\ ~LoginWritten

(***************************************************************************)
(* C4: the password field of the login request is the raw password when    *)
(* login_type is PLAIN and the nonce-salted hash when it is SHA1.          *)
(***************************************************************************)
C4_PasswordByLoginType ==
    Len(wire) = 2 =>
        SentPassword = IF login_params.login_type = "PLAIN"
                       THEN login_params.password
                       ELSE Sha1(login_params.password \o HelloNonce)

(***************************************************************************)
(* C5: with login_type SHA1 the password field of the login request is     *)
(* the hash of the password and the nonce of this run's hello response,    *)
(* and no written message carries the plaintext password.                  *)
(***************************************************************************)
C5_Sha1HashOfNonce ==
    login_params.login_type = "SHA1" =>
        /\ Len(wire) = 2 => SentPassword = Sha1(login_params.password \o HelloNonce)
        /\ \A i \in 1..Len(wire) :
              Len(wire[i].params) = 1 =>
                  Unwrap(wire[i].params).login.password # login_params.password

C5_Witness ==
    /\ login_params.login_type = "SHA1" /\ login_params.password = "secret"
    /\ Len(wire) = 2 /\ HelloNonce = "abc123"
    /\ SentPassword = "sha1:secretabc123"

(***************************************************************************)
(* C6: a success response to hello whose result has no nonce ends login()  *)
(* with "Bad nonce" (protocol violation); no hash is computed and no login *)
(* request is written.                                                     *)
(***************************************************************************)
C6_MissingNonceFails ==
    HelloWithoutNonce =>
        /\ pc = "done"
        /\ ProtocolViolation(outcome) /\ outcome.text = "Bad nonce"
        /\ hash_calls = 0
        /\ ~LoginWritten /\ Len(wire) = 1 /\ rq = None

C6_Witness == HelloWithoutNonce /\ outcome.text = "Bad nonce"

(***************************************************************************)
(* C7: a success response to login ends login() with a client id: the      *)
(* response's clientId when present (unchanged for every signed 32-bit     *)
(* value), 0 when absent; a missing clientId is no failure.                *)
(***************************************************************************)
C7_ClientIdReturned ==
    LoginAccepted =>
        LET clientId == Unwrap(consumed[2].result).clientId
        IN /\ pc = "done" /\ outcome.kind = "Ok"
           /\ ~IsSome(clientId) => outcome.client_id = 0
           /\ \A n \in I32Samples :
                 clientId = Some(ToI64(n)) => outcome.client_id = n

C7_Witness ==
    /\ LoginAccepted
    /\ Unwrap(consumed[2].result).clientId = Some(ToI64(I32Min))
    /\ outcome.kind = "Ok" /\ outcome.client_id = I32Min

(***************************************************************************)
(* C8: an error response to login ends login() with the server's error     *)
(* (authentication rejected); no client id is returned, not even 0.        *)
(***************************************************************************)
C8_LoginErrorRejects ==
    LoginRejected =>
        /\ pc = "done"
        /\ AuthenticationRejected(outcome)
        /\ outcome.rpc = consumed[2].error
        /\ outcome.kind # "Ok"

C8_Witness == LoginRejected /\ outcome.kind = "Err" /\ outcome.type = "RpcError"

(***************************************************************************)
(* C9: when the reader yields no message in answer to login, login() ends  *)
(* with the transport failure "socket closed"; no default response stands  *)
(* in for the missing one and no client id is returned.                    *)
(***************************************************************************)
C9_ClosedAtLoginSocketClosed ==
    ClosedAtLogin =>
        /\ pc = "done"
        /\ outcome.kind = "Err"
        /\ outcome.text \in {"socket closed", "Socket closed"}

(***************************************************************************)
(* C10: a failed send or a failed receive ends login() at once with the    *)
(* transport error: it is the last send or receive of the run and no       *)
(* client id is returned.                                                  *)
(***************************************************************************)
C10_TransportFailureEnds ==
    \A i \in 1..Len(log) :
        IsFailure(log[i]) =>
            /\ i = Len(log)
            /\ pc = "done" /\ rq = None
            /\ Transport(outcome) /\ outcome.type = "io" /\ outcome.text \in IoErrors
            /\ Len(wire) = Len(SelectSeq(SubSeq(log, 1, i), LAMBDA t : t = "send:ok"))

C10_Witness ==
    /\ Len(log) = 3 /\ log[3] = "send:err"
    /\ Len(wire) = 1 /\ outcome.type = "io"

\* three times a u64, exactly: five limbs, lowest first
Triple(v) ==
    LET c1 == v[1] * 3
        c2 == v[2] * 3 + c1 \div 65536
        c3 == v[3] * 3 + c2 \div 65536
        c4 == v[4] * 3 + c3 \div 65536
    IN <<c1 % 65536, c2 % 65536, c3 % 65536, c4 % 65536, c4 \div 65536>>

Range(seq) == {seq[i] : i \in 1..Len(seq)}

\* the pieces of cause appear, in order and together, among the pieces of text
Includes(text, cause) ==
    \E i \in 1..Len(text) + 1 : \E j \in i - 1..Len(text) : SubSeq(text, i, j) = cause

\* the completed calls of from_file_or_default and of from_file
DefaultCalls == {i \in 1..Len(cfg_results) : cfg_results[i].fn = "from_file_or_default"}
LoadCalls == {i \in 1..Len(cfg_results) : cfg_results[i].fn = "from_file"}

\* the file at the path of f is there
FileExists(f) == f.file # None
\* the file at the path of f cannot be read, or its content cannot be parsed
Unreadable(f) == FileExists(f) /\ ~f.readable
Unparseable(f) == FileExists(f) /\ f.readable /\ from_yaml(Unwrap(f.file)).kind = "Err"
\* the message of the read or parse error of the file at the path of f
Cause(f) ==
    IF ~FileExists(f) THEN <<"No such file or directory (os error 2)">>
    ELSE IF ~f.readable THEN <<"Permission denied (os error 13)">>
    ELSE from_yaml(Unwrap(f.file)).text

\* the default record as the documentation of ClientConfig gives it
DefaultRecord ==
    [url |-> "tcp://localhost:3755", device_id |-> None, mount |-> None,
     heartbeat_interval |-> "1m", reconnect_interval |-> None]

\* the operations of a call that change the file system
Mutating(ops) == Range(ops) \cap {"create_dir_all:ok", "create_dir_all:err", "write:ok", "write:err"}

\* the parameters of the login requests built so far, sent or about to be
RenderedLogins ==
    {Unwrap(m.params) : m \in {wire[i] : i \in {j \in 1..Len(wire) : wire[j].method = "login"}}
                              \cup {r \in {rq[i] : i \in 1..Len(rq)} : r.method = "login"}}

(***************************************************************************)
(* C11: login() never changes the caller's LoginParams, whatever the       *)
(* outcome, and the parameters rendered into the login request are the     *)
(* caller's in every field (user, login_type, device_id, mount_point,      *)
(* heartbeat_interval) except password.                                    *)
(***************************************************************************)
C11_CallerParamsUnchanged ==
    /\ [][login_params' = login_params]_vars
    /\ [](/\ \A lp \in {local_params[i] : i \in 1..Len(local_params)} :
                lp = [login_params EXCEPT !.password = lp.password]
          /\ \A r \in RenderedLogins :
                r = to_rpcvalue([login_params EXCEPT !.password = r.login.password]))

C11_Witness ==
    /\ outcome.kind = "Ok" /\ Len(wire) = 2
    /\ login_params.password = "secret" /\ SentPassword # "secret"
    /\ login_params.user = "alice" /\ login_params.device_id = "dev-1"
    /\ IsSome(login_params.heartbeat_interval)

(***************************************************************************)
(* C12: the rendered options hold a device mapping exactly when device_id  *)
(* or mount_point is non-empty; it holds deviceId and never mountPoint     *)
(* when device_id is non-empty, and mountPoint only when device_id is      *)
(* empty and mount_point is not: never both keys, never an empty mapping.  *)
(***************************************************************************)
C12_DeviceKeys ==
    \A r \in RenderedLogins :
        LET p == login_params
            device == r.options.device
        IN /\ IsSome(device) <=> (p.device_id # "" \/ p.mount_point # "")
           /\ IsSome(device) =>
                 LET d == Unwrap(device)
                 IN /\ p.device_id # "" =>
                          d.deviceId = Some(p.device_id) /\ d.mountPoint = None
                    /\ IsSome(d.mountPoint) =>
                          /\ p.device_id = "" /\ p.mount_point # ""
                          /\ d.mountPoint = Some(p.mount_point)
                    /\ (p.device_id = "" /\ p.mount_point # "") =>
                          d.mountPoint = Some(p.mount_point) /\ d.deviceId = None
                    /\ ~(IsSome(d.deviceId) /\ IsSome(d.mountPoint))
                    /\ IsSome(d.deviceId) \/ IsSome(d.mountPoint)

C12_Witness ==
    /\ Len(wire) = 2
    /\ login_params.device_id = "dev-1" /\ login_params.mount_point = "test/mnt"
    /\ Unwrap(Unwrap(wire[2].params).options.device) =
          [deviceId |-> Some("dev-1"), mountPoint |-> None]

(***************************************************************************)
(* C13: with heartbeat_interval = Some(d) the rendered idleWatchDogTimeOut *)
(* is three times the whole seconds of d, for every d; with None the key   *)
(* is absent.                                                              *)
(***************************************************************************)
C13_WatchdogIsTriple ==
    /\ \A r \in RenderedLogins :
          IF IsSome(login_params.heartbeat_interval)
          THEN /\ IsSome(r.options.idleWatchDogTimeOut)
               /\ Append(Unwrap(r.options.idleWatchDogTimeOut), 0)
                     = Triple(Unwrap(login_params.heartbeat_interval).secs)
          ELSE r.options.idleWatchDogTimeOut = None
    /\ outcome.text # "attempt to multiply with overflow"

(***************************************************************************)
(* C14: when a file exists at the path but cannot be read or parsed,       *)
(* from_file_or_default returns an error that names the file path and      *)
(* includes the original cause, for either value of create_if_not_exist,   *)
(* and never the default configuration.                                    *)
(***************************************************************************)
C14_InvalidFileIsAnError ==
    \A i \in DefaultCalls :
       LET c == cfg_results[i]
       IN Unreadable(c.before) \/ Unparseable(c.before) =>
             /\ c.result.kind = "Err"
             /\ c.result.config = None
             /\ c.file_name \in Range(c.result.text)
             /\ Includes(c.result.text, Cause(c.before))

C14_Witness ==
    \E i \in DefaultCalls : \E j \in DefaultCalls :
       /\ Unparseable(cfg_results[i].before)
       /\ cfg_results[i].create_if_not_exist /\ ~cfg_results[j].create_if_not_exist
       /\ cfg_results[i].result.kind = "Err" /\ cfg_results[j].result.kind = "Err"
       /\ cfg_results[i].file_name = "etc/shv/client.yaml"

(***************************************************************************)
(* C15: when no file exists at the path, create_if_not_exist is true and   *)
(* from_file_or_default succeeds, it returns the default record            *)
(* (url "tcp://localhost:3755", heartbeat_interval "1m", every optional    *)
(* field absent), and the next load from the same path, by from_file or by *)
(* from_file_or_default, returns an equal record.                          *)
(***************************************************************************)
C15_CreatedDefaultReloads ==
    \A i \in DefaultCalls :
       LET c == cfg_results[i]
       IN ~FileExists(c.before) /\ c.create_if_not_exist /\ c.result.kind = "Ok" =>
             /\ c.result.config = Some(DefaultRecord)
             /\ "write:ok" \in Range(c.ops)
             /\ i < Len(cfg_results) =>
                   /\ cfg_results[i + 1].file_name = c.file_name
                   /\ cfg_results[i + 1].result.kind = "Ok"
                   /\ cfg_results[i + 1].result.config = c.result.config

C15_Witness ==
    /\ Len(cfg_results) = 2
    /\ cfg_results[1].fn = "from_file_or_default"
    /\ ~cfg_results[1].before.dir /\ cfg_results[1].create_if_not_exist
    /\ cfg_results[1].result = CfgOk(DefaultRecord)
    /\ cfg_results[2].fn = "from_file"
    /\ cfg_results[2].result = CfgOk(DefaultRecord)

(***************************************************************************)
(* C16: when no file exists at the path, create_if_not_exist is true, and  *)
(* creating the parent directory or writing the file fails,                *)
(* from_file_or_default returns an error and not the default               *)
(* configuration; no write is attempted after a failed directory creation. *)
(***************************************************************************)
C16_PersistFailureIsAnError ==
    \A i \in DefaultCalls :
       LET c == cfg_results[i]
       IN /\ ~FileExists(c.before) /\ c.create_if_not_exist
             /\ {"create_dir_all:err", "write:err"} \cap Range(c.ops) # {} =>
                /\ c.result.kind = "Err"
                /\ c.result.config = None
          /\ "create_dir_all:err" \in Range(c.ops) =>
                {"write:ok", "write:err"} \cap Range(c.ops) = {}

C16_Witness ==
    \E i \in DefaultCalls : \E j \in DefaultCalls :
       /\ "create_dir_all:err" \in Range(cfg_results[i].ops)
       /\ "write:err" \in Range(cfg_results[j].ops)
       /\ cfg_results[i].result.kind = "Err" /\ cfg_results[j].result.kind = "Err"

(***************************************************************************)
(* C17: from_file_or_default changes the file system only when no file     *)
(* exists at the path and create_if_not_exist is true: with a file there   *)
(* nothing is created or written for either flag, and with no file and     *)
(* create_if_not_exist false the default record is returned, no directory  *)
(* is created and no file is written.                                      *)
(***************************************************************************)
C17_FileSystemFrame ==
    \A i \in DefaultCalls :
       LET c == cfg_results[i]
       IN /\ FileExists(c.before) \/ ~c.create_if_not_exist =>
                c.after = c.before /\ Mutating(c.ops) = {}
          /\ ~FileExists(c.before) /\ ~c.create_if_not_exist =>
                c.result = CfgOk(DefaultRecord)

C17_Witness ==
    \E i \in DefaultCalls : \E j \in DefaultCalls :
       /\ ~FileExists(cfg_results[i].before) /\ ~cfg_results[i].before.dir
       /\ ~cfg_results[i].create_if_not_exist
       /\ cfg_results[i].result = CfgOk(DefaultRecord)
       /\ j = i + 1
       /\ cfg_results[j].create_if_not_exist
       /\ FileExists(cfg_results[j].after)

C19_CancelLeavesCompleteRequests ==
    pc = "cancelled" =>
       /\ partial = 0
       /\ Len(wire) - Len(consumed) \in {0, 1}
       /\ rq = None

(***************************************************************************)
(* C20: when every write completes or fails and the peer answers every     *)
(* request, every run of login() ends in one outcome, Authenticated with a *)
(* client id (Ok) or Failed with a cause (Err), and stays there.           *)
(***************************************************************************)
C20_EndsAuthenticatedOrFailed ==
    /\ [](pc = "done" => outcome.kind \in {"Ok", "Err"})
    /\ <>[](pc = "done")

=============================================================================
